---- MODULE Spec2Model ----
(***************************************************************************)
(* Homevolt battery optimizer (src/homevolt_optimizer.py): the battery     *)
(* profile simulator, the peak-shaving solver, the safety corrector, the   *)
(* cheap-hour fill, the intra-hour reallocator and the two arbitrage       *)
(* passes, as run by run_optimizer.                                        *)
(*                                                                         *)
(* Energies are fixed-point integers: one unit is 2^-16 Wh, so that the    *)
(* 20 halvings of [0, 10000] Wh done by calculate_min_peak_limit, and      *)
(* every sum and difference the phases take of them, are exact (as they    *)
(* are in the program's binary floating point for these magnitudes).       *)
(* Prices are integers (ore).                                              *)
(***************************************************************************)
EXTENDS Integers, Sequences, FiniteSets, TLC

VARIABLES
    cfg,        \* the settings imported from homevolt_optimizer_settings
    timeline,   \* the list of slot records, mutated in place by the phases
    current_battery_wh, \* the starting charge
    pc,         \* position in run_optimizer (or in the function harness)
    optimal_limit,      \* phase 1's chosen ceiling
    warning_flag,       \* phase 1's "new peak expected"
    safety_iter,        \* phase_2_safety_checks' pass counter
    swap_iter,          \* phase_3_price_optimization's iteration counter
    swap_ceiling_wh,    \* phase_3_price_optimization's effective ceiling
    last_swap,  \* the (earlier, later) pair of the swap just accepted, or <<>>
    result,     \* what the function applied last returned
    before,     \* the timeline as it was when the current phase began
    return_history,     \* run_optimizer's argument
    history,    \* run_optimizer's list of snapshots
    retval      \* what run_optimizer returned, "" while it runs

vars == <<cfg, timeline, current_battery_wh, pc, optimal_limit, warning_flag,
          safety_iter, swap_iter, swap_ceiling_wh, last_swap, result, before,
          return_history, history, retval>>

\* One watt-hour in model units.
Wh == 2^16

Max2(a, b) == IF a >= b THEN a ELSE b
Min2(a, b) == IF a <= b THEN a ELSE b

RECURSIVE SeqSum(_)
SeqSum(s) == IF s = <<>> THEN 0 ELSE Head(s) + SeqSum(Tail(s))

RECURSIVE SeqMax(_)
SeqMax(s) == IF Len(s) = 1 THEN s[1] ELSE Max2(s[1], SeqMax(Tail(s)))

Slots(tl) == 1..Len(tl)

\* temp_grid = [x["grid_wh"] for x in timeline]
GridOf(tl) == [i \in Slots(tl) |-> tl[i].grid_wh]

----------------------------------------------------------------------------
(* Settings read by the optimizer.  The record cfg holds them in whole Wh, W and ore. *)
BATTERY_ENERGY_WH == cfg.BATTERY_ENERGY_WH * Wh
MAX_BATTERY_OUTPUT_PER_QUARTER_WH == cfg.MAX_BATTERY_OUTPUT_PER_QUARTER_WH * Wh
LOW_SOC_THROTTLE_WH == cfg.LOW_SOC_THROTTLE_WH * Wh
LOW_SOC_MAX_OUTPUT_PER_QUARTER_WH == cfg.LOW_SOC_MAX_OUTPUT_PER_QUARTER_WH * Wh
BIAS_WH_PER_QUARTER == cfg.BIAS_WH_PER_QUARTER * Wh
MIN_BATTERY_BUFFER_WH == cfg.MIN_BATTERY_BUFFER_WH * Wh
\* None is the empty sequence, a manual limit v (Wh per hour) is <<v>>.
TRY_KEEP_HOURS_BELOW_WH == cfg.TRY_KEEP_HOURS_BELOW_WH
ENABLE_ARBITRAGE == cfg.ENABLE_ARBITRAGE
MIN_PRICE_DIFF_ORE_FOR_SELLING == cfg.MIN_PRICE_DIFF_ORE_FOR_SELLING
BATTERY_CYCLE_COST_ORE == cfg.BATTERY_CYCLE_COST_ORE
\* TOTAL_ADDITIONAL_FEES = ADDITIONAL_FEES_TAX_ORE + ADDITIONAL_FEES_GRID_ORE
TOTAL_ADDITIONAL_FEES == cfg.ADDITIONAL_FEES_TAX_ORE + cfg.ADDITIONAL_FEES_GRID_ORE
\* PREVIOUS_PEAK_WH = PREVIOUS_MONTHLY_HOUR_PEAK_POWER_KW * 1000.0
PREVIOUS_PEAK_WH == cfg.PREVIOUS_MONTHLY_HOUR_PEAK_POWER_W * Wh

----------------------------------------------------------------------------
(* calculate_battery_profile_from_list *)

RECURSIVE ProfileLoop(_, _, _, _)
ProfileLoop(curr, grid_cmds, tl, i) ==
    IF i > Len(grid_cmds) THEN <<>>
    ELSE LET actual == grid_cmds[i] + BIAS_WH_PER_QUARTER
             change == actual - tl[i].base_net_load_wh
             c1 == curr + change
             c2 == IF c1 > BATTERY_ENERGY_WH THEN BATTERY_ENERGY_WH ELSE c1
         IN  <<c2>> \o ProfileLoop(c2, grid_cmds, tl, i + 1)

\* A simulator that also clamps from below, at zero (the code does not).
ProfileFloored(soc_start, grid_cmds, tl) ==
    LET p == ProfileLoop(soc_start, grid_cmds, tl, 1)
    IN  [i \in DOMAIN p |-> IF p[i] < 0 THEN 0 ELSE p[i]]

calculate_battery_profile_from_list(soc_start, grid_cmds, tl) ==
    ProfileLoop(soc_start, grid_cmds, tl, 1)

----------------------------------------------------------------------------
(* calculate_min_peak_limit *)

SearchLow == 0
SearchHigh == 10000 * Wh
Halvings == 20

\* the inner for loop: no slot needs more than the per-slot discharge limit
PeakPossible(tl, mid) ==
    \A i \in Slots(tl) :
        LET usable == Max2(0, mid - BIAS_WH_PER_QUARTER)
            needed == Max2(0, tl[i].base_net_load_wh - usable)
        IN  ~(needed > MAX_BATTERY_OUTPUT_PER_QUARTER_WH)

\* total_needed = sum(max(0, x["base_net_load_wh"] - (mid - BIAS)) ...)
PeakTotalNeeded(tl, mid) ==
    SeqSum([i \in Slots(tl) |->
              Max2(0, tl[i].base_net_load_wh - (mid - BIAS_WH_PER_QUARTER))])

RECURSIVE PeakSearch(_, _, _, _, _, _)
PeakSearch(tl, available_energy_wh, low, high, best, k) ==
    IF k = 0 THEN best
    ELSE LET mid == (low + high) \div 2
         IN  IF PeakPossible(tl, mid)
                /\ PeakTotalNeeded(tl, mid) <= available_energy_wh
             THEN PeakSearch(tl, available_energy_wh, low, mid, mid, k - 1)
             ELSE PeakSearch(tl, available_energy_wh, mid, high, best, k - 1)

calculate_min_peak_limit(tl, available_energy_wh) ==
    PeakSearch(tl, available_energy_wh, SearchLow, SearchHigh, SearchHigh, Halvings)

----------------------------------------------------------------------------
(* get_hourly_usage_map: a dict holding only the hours with positive import *)

HourlyPositive(tl, h) ==
    SeqSum([i \in Slots(tl) |->
              IF tl[i].hour = h /\ tl[i].grid_wh + BIAS_WH_PER_QUARTER > 0
              THEN tl[i].grid_wh + BIAS_WH_PER_QUARTER ELSE 0])

get_hourly_usage_map(tl) ==
    [h \in {tl[i].hour : i \in {j \in Slots(tl) :
                                  tl[j].grid_wh + BIAS_WH_PER_QUARTER > 0}}
        |-> HourlyPositive(tl, h)]

\* u.get(h, 0)
UsageGet(u, h) == IF h \in DOMAIN u THEN u[h] ELSE 0

\* u[h] += take, for h a key of u
UsageAdd(u, h, take) == [u EXCEPT ![h] = @ + take]

----------------------------------------------------------------------------
(* list.sort(key=lambda x: x["price"]): stable, ascending by price *)

RECURSIVE InsertByPrice(_, _)
InsertByPrice(x, s) ==
    IF s = <<>> THEN <<x>>
    ELSE IF x.price <= Head(s).price THEN <<x>> \o s
    ELSE <<Head(s)>> \o InsertByPrice(x, Tail(s))

RECURSIVE SortByPrice(_)
SortByPrice(s) ==
    IF s = <<>> THEN <<>> ELSE InsertByPrice(Head(s), SortByPrice(Tail(s)))

----------------------------------------------------------------------------
(* distribute_smart_safety_fill.  end_index is the violating slot's       *)
(* position (1-based here).  The result is the timeline and whether the   *)
(* call raised (KeyError at hourly_usage[c["hour"]] += take).             *)

OneWh == 1 * Wh

get_candidates(tl, hourly_usage, end_index, soc, ignore_peak_limit) ==
    LET base_profile == calculate_battery_profile_from_list(soc, GridOf(tl), tl)
        cand(i) ==
            LET rel == SubSeq(base_profile, i, end_index)
                max_s == SeqMax(rel)
                cap_h == BATTERY_ENERGY_WH - max_s
                peak_h == PREVIOUS_PEAK_WH - UsageGet(hourly_usage, tl[i].hour)
                act_h == IF ~ignore_peak_limit THEN Min2(cap_h, peak_h)
                         ELSE Min2(cap_h, MAX_BATTERY_OUTPUT_PER_QUARTER_WH)
            IN  [index |-> i, price |-> tl[i].price, headroom |-> act_h,
                 hour |-> tl[i].hour,
                 skip |-> \/ cap_h <= OneWh
                          \/ (~ignore_peak_limit /\ peak_h <= OneWh)]
    IN  SelectSeq([i \in 1..end_index |-> cand(i)], LAMBDA c : ~c.skip)

RECURSIVE FillPass1(_, _, _, _)
FillPass1(cands, tl, hourly_usage, rem) ==
    IF cands = <<>> \/ rem <= 0
    THEN [tl |-> tl, rem |-> rem, raised |-> FALSE]
    ELSE LET c == Head(cands)
             take == Min2(rem, c.headroom)
             tl1 == [tl EXCEPT ![c.index].grid_wh = @ + take]
         IN  IF c.hour \notin DOMAIN hourly_usage
             THEN [tl |-> tl1, rem |-> rem, raised |-> TRUE]
             ELSE FillPass1(Tail(cands), tl1,
                            UsageAdd(hourly_usage, c.hour, take), rem - take)

RECURSIVE FillPass2(_, _, _)
FillPass2(cands, tl, rem) ==
    IF cands = <<>> \/ rem <= 0
    THEN [tl |-> tl, rem |-> rem]
    ELSE LET c == Head(cands)
             take == Min2(rem, c.headroom)
         IN  FillPass2(Tail(cands), [tl EXCEPT ![c.index].grid_wh = @ + take],
                       rem - take)

\* Pass 1: candidates = get_candidates(False), sorted by price, rem = needed
SafetyFillPass1(tl, needed, end_index, soc) ==
    LET hourly_usage == get_hourly_usage_map(tl)
    IN  FillPass1(SortByPrice(get_candidates(tl, hourly_usage, end_index,
                                             soc, FALSE)),
                  tl, hourly_usage, needed)

distribute_smart_safety_fill(tl, needed, end_index, soc) ==
    LET hourly_usage == get_hourly_usage_map(tl)
        p1 == SafetyFillPass1(tl, needed, end_index, soc)
        \* pass 2 ignores the peak budget, so pass 1's usage figures are not read
        p2 == IF p1.rem > 0
              THEN FillPass2(SortByPrice(get_candidates(p1.tl, hourly_usage,
                                                        end_index, soc, TRUE)),
                             p1.tl, p1.rem)
              ELSE [tl |-> p1.tl, rem |-> p1.rem]
        tl3 == IF p2.rem > 0
               THEN [p2.tl EXCEPT ![1].grid_wh = @ + p2.rem]
               ELSE p2.tl
    IN  IF p1.raised THEN [tl |-> p1.tl, raised |-> TRUE]
        ELSE [tl |-> tl3, raised |-> FALSE]

----------------------------------------------------------------------------
(* phase_1_peak_shaving *)

\* the ceiling: the manual limit per quarter, or the search's result
Phase1Optimal(tl, soc) ==
    LET usable == Max2(0, soc - MIN_BATTERY_BUFFER_WH)
    IN  IF TRY_KEEP_HOURS_BELOW_WH # <<>>
        THEN (TRY_KEEP_HOURS_BELOW_WH[1] * Wh) \div 4
        ELSE calculate_min_peak_limit(tl, usable)

\* A slot's discharge limited by the rate only, not by what is left above the
\* reserve (the code limits it by both).
Phase1DischargeRateOnly(item, optimal, curr_soc) ==
    LET use_grid == Max2(0, optimal - BIAS_WH_PER_QUARTER)
        d0 == item.base_net_load_wh - use_grid
    IN  Min2(MAX_BATTERY_OUTPUT_PER_QUARTER_WH, Max2(0, d0))

\* one slot of the loop: the discharge given the charge before the slot
Phase1Discharge(item, optimal, curr_soc) ==
    LET use_grid == Max2(0, optimal - BIAS_WH_PER_QUARTER)
        d0 == item.base_net_load_wh - use_grid
        d1 == IF d0 < 0 THEN 0 ELSE d0
        d2 == IF d1 > MAX_BATTERY_OUTPUT_PER_QUARTER_WH
              THEN MAX_BATTERY_OUTPUT_PER_QUARTER_WH ELSE d1
    IN  IF curr_soc - d2 < MIN_BATTERY_BUFFER_WH
        THEN Max2(0, curr_soc - MIN_BATTERY_BUFFER_WH) ELSE d2

RECURSIVE Phase1Loop(_, _, _, _)
Phase1Loop(tl, optimal, curr_soc, i) ==
    IF i > Len(tl) THEN tl
    ELSE LET dis == Phase1Discharge(tl[i], optimal, curr_soc)
             soc1 == curr_soc - dis
             item == [tl[i] EXCEPT
                        !.grid_wh = (tl[i].base_net_load_wh - dis)
                                    - BIAS_WH_PER_QUARTER,
                        !.batt_wh = soc1]
         IN  Phase1Loop([tl EXCEPT ![i] = item], optimal, soc1, i + 1)

\* the rest of the function, once the ceiling is known
Phase1With(tl, soc, optimal) ==
    LET monthly_peak == PREVIOUS_PEAK_WH \div 4
    IN  [tl |-> Phase1Loop(tl, optimal, soc, 1),
         optimal |-> optimal,
         warning_flag |-> optimal > monthly_peak]

phase_1_peak_shaving(tl, soc) ==
    CHOOSE r \in {Phase1With(tl, soc, o) : o \in {Phase1Optimal(tl, soc)}} : TRUE

----------------------------------------------------------------------------
(* phase_2_safety_checks: one pass of the while loop *)

\* start_soc = current_battery_wh if i == 0 else profile[i-1]
StartSoc(profile, soc, i) == IF i = 1 THEN soc ELSE profile[i - 1]

\* dis = item["base_net_load_wh"] - (item["grid_wh"] + BIAS)
Discharge(item) ==
    item.base_net_load_wh - (item.grid_wh + BIAS_WH_PER_QUARTER)

SafetyViolations(tl, soc) ==
    LET profile == calculate_battery_profile_from_list(soc, GridOf(tl), tl)
    IN  {i \in Slots(tl) :
            /\ Discharge(tl[i]) > LOW_SOC_MAX_OUTPUT_PER_QUARTER_WH
            /\ StartSoc(profile, soc, i) < LOW_SOC_THROTTLE_WH}

FirstOf(S) == CHOOSE i \in S : \A j \in S : i <= j

\* needed = LOW_SOC_THROTTLE_WH - start_soc + 1.0, for the first violating slot
SafetyNeeded(tl, soc, i) ==
    LET profile == calculate_battery_profile_from_list(soc, GridOf(tl), tl)
    IN  LOW_SOC_THROTTLE_WH - StartSoc(profile, soc, i) + OneWh

SafetyCap == 10

----------------------------------------------------------------------------
(* phase_smart_fill_cheap_hours *)

\* x["price"] < avg_p, avg_p = sum(prices) / len(timeline)
BelowAverage(tl, x) ==
    x.price * Len(tl) < SeqSum([i \in Slots(tl) |-> tl[i].price])

\* check_capacity(): max(prof) <= BATTERY_ENERGY_WH
check_capacity(tl, soc) ==
    SeqMax(calculate_battery_profile_from_list(soc, GridOf(tl), tl))
        <= BATTERY_ENERGY_WH

RECURSIVE SmartFillLoop(_, _, _, _, _)
SmartFillLoop(cands, tl, hourly_usage, soc, limit_wh) ==
    IF cands = <<>> THEN [tl |-> tl, raised |-> FALSE]
    ELSE LET i == Head(cands).index
             item == tl[i]
             room_to_peak == limit_wh - UsageGet(hourly_usage, item.hour)
             room_to_load == item.base_net_load_wh
                             - (item.grid_wh + BIAS_WH_PER_QUARTER)
             take == Min2(room_to_peak, room_to_load)
             tl1 == [tl EXCEPT ![i].grid_wh = @ + take]
         IN  IF room_to_peak < OneWh \/ room_to_load < OneWh
             THEN SmartFillLoop(Tail(cands), tl, hourly_usage, soc, limit_wh)
             ELSE IF item.hour \notin DOMAIN hourly_usage
             THEN [tl |-> tl1, raised |-> TRUE]
             ELSE IF check_capacity(tl1, soc)
             THEN SmartFillLoop(Tail(cands), tl1,
                                UsageAdd(hourly_usage, item.hour, take),
                                soc, limit_wh)
             ELSE SmartFillLoop(Tail(cands), tl, hourly_usage, soc, limit_wh)

\* The phase sorting the timeline itself by price, in place, and walking its
\* below-average slots (the code sorts a separate list of candidates).
SmartFillSortingTimeline(tl, soc, limit_wh) ==
    LET sorted == SortByPrice(tl)
        placed == [i \in Slots(sorted) |->
                     [index |-> i, price |-> sorted[i].price]]
    IN  SmartFillLoop(SelectSeq(placed, LAMBDA x : BelowAverage(tl, x)),
                      sorted, get_hourly_usage_map(tl), soc, limit_wh)

phase_smart_fill_cheap_hours(tl, soc, limit_wh) ==
    LET cheap_candidates ==
            SortByPrice(SelectSeq(tl, LAMBDA x : BelowAverage(tl, x)))
    IN  SmartFillLoop(cheap_candidates, tl, get_hourly_usage_map(tl), soc,
                      limit_wh)

----------------------------------------------------------------------------
(* phase_optimize_within_hours *)

\* indices = [i for i, x in enumerate(timeline) if x["hour"] == hour]
HourIndices(tl, hour) ==
    SelectSeq([i \in Slots(tl) |-> i], LAMBDA i : tl[i].hour = hour)

\* first loop: each slot, cheapest first, takes up to max(0, load)
RECURSIVE AllocLoad(_, _, _)
AllocLoad(quarters, allocated, remaining_budget) ==
    IF quarters = <<>>
    THEN [allocated |-> allocated, remaining_budget |-> remaining_budget]
    ELSE LET q == Head(quarters)
             max_take == Max2(0, q.base_net_load_wh)
             take == Min2(remaining_budget, max_take)
         IN  AllocLoad(Tail(quarters), [allocated EXCEPT ![q.index] = take],
                       remaining_budget - take)

\* second loop: the remainder goes into charging headroom, cheapest first
RECURSIVE AllocCharge(_, _, _)
AllocCharge(quarters, allocated, remaining_budget) ==
    IF quarters = <<>>
    THEN [allocated |-> allocated, remaining_budget |-> remaining_budget]
    ELSE LET q == Head(quarters)
             curr_val == allocated[q.index]
             max_grid_charge == q.base_net_load_wh
                                + MAX_BATTERY_OUTPUT_PER_QUARTER_WH
             room == max_grid_charge - curr_val
             take == Min2(remaining_budget, room)
             a1 == IF room > 0 THEN [allocated EXCEPT ![q.index] = @ + take]
                   ELSE allocated
             r1 == IF room > 0 THEN remaining_budget - take
                   ELSE remaining_budget
         IN  IF r1 <= 0 THEN [allocated |-> a1, remaining_budget |-> r1]
             ELSE AllocCharge(Tail(quarters), a1, r1)

\* the validation loop: [valid, temp_soc] after the hour's slots from index k on
RECURSIVE ValidateHour(_, _, _, _, _)
ValidateHour(tl, indices, k, temp_soc, valid) ==
    IF k > Len(indices) THEN [valid |-> valid, temp_soc |-> temp_soc]
    ELSE LET dis == Discharge(tl[indices[k]])
             ok == /\ ~(dis > MAX_BATTERY_OUTPUT_PER_QUARTER_WH)
                   /\ ~(temp_soc < LOW_SOC_THROTTLE_WH
                        /\ dis > LOW_SOC_MAX_OUTPUT_PER_QUARTER_WH)
                   /\ ~(temp_soc - dis < MIN_BATTERY_BUFFER_WH)
             s1 == temp_soc - dis
             s2 == IF s1 > BATTERY_ENERGY_WH THEN BATTERY_ENERGY_WH ELSE s1
         IN  ValidateHour(tl, indices, k + 1, s2, valid /\ ok)

\* current_soc -= d over the hour's slots, with no clamp
UnclampedAfter(tl, indices, current_soc) ==
    current_soc - SeqSum([k \in 1..Len(indices) |-> Discharge(tl[indices[k]])])

\* the body of the loop over unique_hours, for one hour
OptimizeHour(tl, current_soc, hour) ==
    LET indices == HourIndices(tl, hour)
        quarters == [k \in 1..Len(indices) |-> tl[indices[k]]]
        hour_total_grid ==
            SeqSum([k \in 1..Len(indices) |->
                      quarters[k].grid_wh + BIAS_WH_PER_QUARTER])
        sorted == SortByPrice(quarters)
        a0 == [i \in {indices[k] : k \in 1..Len(indices)} |-> 0]
        p1 == AllocLoad(sorted, a0, hour_total_grid)
        p2 == IF p1.remaining_budget > 0
              THEN AllocCharge(sorted, p1.allocated, p1.remaining_budget)
              ELSE p1
        tl1 == [i \in Slots(tl) |->
                  IF i \in DOMAIN p2.allocated
                  THEN [tl[i] EXCEPT !.grid_wh = p2.allocated[i]
                                                 - BIAS_WH_PER_QUARTER]
                  ELSE tl[i]]
        v == ValidateHour(tl1, indices, 1, current_soc, TRUE)
    IN  IF hour_total_grid <= 0
        THEN [tl |-> tl, current_soc |-> UnclampedAfter(tl, indices, current_soc),
              branch |-> "skipped"]
        ELSE IF v.valid
        THEN [tl |-> tl1, current_soc |-> v.temp_soc, branch |-> "accepted"]
        ELSE [tl |-> tl, current_soc |-> UnclampedAfter(tl, indices, current_soc),
              branch |-> "rolled_back"]

\* unique_hours = sorted(list(set(...))), as an ascending sequence
RECURSIVE SortedSeqOf(_)
SortedSeqOf(S) ==
    IF S = {} THEN <<>>
    ELSE LET m == CHOOSE x \in S : \A y \in S : x <= y
         IN  <<m>> \o SortedSeqOf(S \ {m})

UniqueHours(tl) == SortedSeqOf({tl[i].hour : i \in Slots(tl)})

RECURSIVE OptimizeHours(_, _, _)
OptimizeHours(tl, current_soc, hours) ==
    IF hours = <<>> THEN tl
    ELSE LET r == OptimizeHour(tl, current_soc, Head(hours))
         IN  OptimizeHours(r.tl, r.current_soc, Tail(hours))

phase_optimize_within_hours(tl, soc) == OptimizeHours(tl, soc, UniqueHours(tl))

----------------------------------------------------------------------------
(* phase_3_price_optimization *)

FiftyWh == 50 * Wh
SwapCap == 500

\* the ceiling fixed before the loop: the larger of the argument and the
\* largest import present (curr_max starts at 0)
EffectiveSwapCeiling(tl, swap_ceiling_arg) ==
    LET curr_max == SeqMax(<<0>> \o [i \in Slots(tl) |->
                                       tl[i].grid_wh + BIAS_WH_PER_QUARTER])
    IN  IF curr_max > swap_ceiling_arg THEN curr_max ELSE swap_ceiling_arg

\* swap_ceiling_wh = monthly_peak_wh if not warning_flag else optimal_limit
SwapCeilingArg(optimal, warning) ==
    IF ~warning THEN PREVIOUS_PEAK_WH \div 4 ELSE optimal

\* The pair test without the cycling-cost test of line 506 (the code has it).
SwapFeasibleAnySpread(tl, soc, ceiling, c, e) ==
    LET curr_prof == calculate_battery_profile_from_list(soc, GridOf(tl), tl)
        act_c == tl[c].grid_wh + BIAS_WH_PER_QUARTER
        dis_c == tl[c].base_net_load_wh - act_c
        dis_e == Discharge(tl[e])
        start_soc_e == StartSoc(curr_prof, soc, e)
    IN  /\ ~(dis_c <= 0)
        /\ ~(act_c >= ceiling)
        /\ c # e
        /\ ~(dis_e >= MAX_BATTERY_OUTPUT_PER_QUARTER_WH)
        /\ ~(start_soc_e < LOW_SOC_THROTTLE_WH
             /\ dis_e >= LOW_SOC_MAX_OUTPUT_PER_QUARTER_WH)
        /\ ~(c > e)
        /\ \A k \in c..(e - 1) : ~(curr_prof[k] >= BATTERY_ENERGY_WH - OneWh)

\* the pair (t_c, t_e) passes every `continue` of the two nested loops
SwapFeasible(tl, soc, ceiling, c, e) ==
    LET curr_prof == calculate_battery_profile_from_list(soc, GridOf(tl), tl)
        act_c == tl[c].grid_wh + BIAS_WH_PER_QUARTER
        dis_c == tl[c].base_net_load_wh - act_c
        p_diff == tl[e].price - tl[c].price
        dis_e == Discharge(tl[e])
        start_soc_e == StartSoc(curr_prof, soc, e)
    IN  /\ ~(dis_c <= 0)
        /\ ~(act_c >= ceiling)
        /\ c # e
        /\ ~(p_diff < BATTERY_CYCLE_COST_ORE)
        /\ ~(dis_e >= MAX_BATTERY_OUTPUT_PER_QUARTER_WH)
        /\ ~(start_soc_e < LOW_SOC_THROTTLE_WH
             /\ dis_e >= LOW_SOC_MAX_OUTPUT_PER_QUARTER_WH)
        /\ ~(c > e)
        /\ \A k \in c..(e - 1) : ~(curr_prof[k] >= BATTERY_ENERGY_WH - OneWh)

\* best_swap: the first pair in scan order whose spread beats max_spread
\* (initially 0) and every pair scanned before it; <<>> when there is none
BestSwap(tl, soc, ceiling) ==
    LET F == {p \in Slots(tl) \X Slots(tl) :
                /\ SwapFeasible(tl, soc, ceiling, p[1], p[2])
                /\ tl[p[2]].price - tl[p[1]].price > 0}
        spread(p) == tl[p[2]].price - tl[p[1]].price
        before_(p, q) == p[1] < q[1] \/ (p[1] = q[1] /\ p[2] < q[2])
    IN  IF F = {} THEN <<>>
        ELSE CHOOSE p \in F :
                \A q \in F \ {p} :
                    \/ spread(p) > spread(q)
                    \/ (spread(p) = spread(q) /\ before_(p, q))

\* The increment moved the other way round (the code adds to s, takes from d).
ApplySwapReversed(tl, s, d) ==
    [tl EXCEPT ![s].grid_wh = @ - FiftyWh, ![d].grid_wh = @ + FiftyWh]

\* timeline[s]["grid_wh"] += 50.0; timeline[d]["grid_wh"] -= 50.0
ApplySwap(tl, s, d) ==
    [tl EXCEPT ![s].grid_wh = @ + FiftyWh, ![d].grid_wh = @ - FiftyWh]

----------------------------------------------------------------------------
(* phase_4_active_arbitrage *)

\* the pair (t_b, t_s) passes every `continue` of the two nested loops
ArbFeasible(tl, soc, hourly_usage, b, s) ==
    LET curr_prof == calculate_battery_profile_from_list(soc, GridOf(tl), tl)
        curr_h == UsageGet(hourly_usage, tl[b].hour)
        start_soc_b == StartSoc(curr_prof, soc, b)
        dis_s == Discharge(tl[s])
    IN  /\ ~(PREVIOUS_PEAK_WH - curr_h < FiftyWh)
        /\ ~(start_soc_b >= BATTERY_ENERGY_WH - OneWh)
        /\ ~(b >= s)
        /\ LET start_soc_s == curr_prof[s - 1]
           IN  ~(start_soc_s < LOW_SOC_THROTTLE_WH
                 /\ dis_s + FiftyWh > LOW_SOC_MAX_OUTPUT_PER_QUARTER_WH)
        /\ ~(dis_s + FiftyWh > MAX_BATTERY_OUTPUT_PER_QUARTER_WH)
        /\ \A k \in b..(s - 1) : ~(curr_prof[k] + FiftyWh > BATTERY_ENERGY_WH)

\* profit = sell_r - buy_c - BATTERY_CYCLE_COST_ORE
ArbProfit(tl, b, s) ==
    tl[s].price - (tl[b].price + TOTAL_ADDITIONAL_FEES) - BATTERY_CYCLE_COST_ORE

\* The first iteration reaches `max_prof = prof` (line 562) for the first
\* pair that passes the checks with profit above max_prof = 0; `prof` is
\* not a name of that scope, so the statement raises NameError.
ArbRaises(tl, soc) ==
    \E b \in Slots(tl), s \in Slots(tl) :
        /\ ArbFeasible(tl, soc, get_hourly_usage_map(tl), b, s)
        /\ ~(ArbProfit(tl, b, s) < MIN_PRICE_DIFF_ORE_FOR_SELLING)
        /\ ArbProfit(tl, b, s) > 0

----------------------------------------------------------------------------
(* The inputs: settings, timelines and starting charges. *)

NSlots == 3

Loads == {-80, 90, 130}
Prices == {1, 3, 4}

BaseConfig ==
    [BATTERY_ENERGY_WH |-> 250,
     MAX_BATTERY_OUTPUT_PER_QUARTER_WH |-> 120,
     LOW_SOC_THROTTLE_WH |-> 200,
     LOW_SOC_MAX_OUTPUT_PER_QUARTER_WH |-> 60,
     BIAS_WH_PER_QUARTER |-> 0,
     MIN_BATTERY_BUFFER_WH |-> 100,
     TRY_KEEP_HOURS_BELOW_WH |-> <<>>,
     OPTIMIZE_OVERRIDE_CURRENT_SOC_WH |-> <<>>,
     PREVIOUS_MONTHLY_HOUR_PEAK_POWER_W |-> 240,
     ENABLE_ARBITRAGE |-> TRUE,
     MIN_PRICE_DIFF_ORE_FOR_SELLING |-> 1,
     BATTERY_CYCLE_COST_ORE |-> 2,
     ADDITIONAL_FEES_TAX_ORE |-> 0,
     ADDITIONAL_FEES_GRID_ORE |-> 0]

\* The settings the runs are checked under: the ceiling searched or set by
\* hand, the bias zero or not, the battery full, low (override 190 Wh), just
\* under the low-charge threshold (override 199 Wh) or under its reserve
\* (override 90 Wh), the arbitrage passes on or off.
Configs ==
    {[BaseConfig EXCEPT !.BIAS_WH_PER_QUARTER = 20],
     [BaseConfig EXCEPT !.BIAS_WH_PER_QUARTER = 20,
                        !.OPTIMIZE_OVERRIDE_CURRENT_SOC_WH = <<190>>],
     [BaseConfig EXCEPT !.TRY_KEEP_HOURS_BELOW_WH = <<160>>,
                        !.OPTIMIZE_OVERRIDE_CURRENT_SOC_WH = <<190>>],
     [BaseConfig EXCEPT !.OPTIMIZE_OVERRIDE_CURRENT_SOC_WH = <<90>>,
                        !.ENABLE_ARBITRAGE = FALSE],
     [BaseConfig EXCEPT !.TRY_KEEP_HOURS_BELOW_WH = <<160>>,
                        !.OPTIMIZE_OVERRIDE_CURRENT_SOC_WH = <<199>>,
                        !.ENABLE_ARBITRAGE = FALSE]}

\* the settings the snapshots are checked under: the arbitrage passes on
\* (bias 20 Wh, full battery) and off (battery under its reserve)
HistoryConfigs ==
    {[BaseConfig EXCEPT !.BIAS_WH_PER_QUARTER = 20],
     [BaseConfig EXCEPT !.OPTIMIZE_OVERRIDE_CURRENT_SOC_WH = <<90>>,
                        !.ENABLE_ARBITRAGE = FALSE]}

\* setup_timeline: current_battery_wh = START_BATTERY_WH_DEFAULT
\* (= BATTERY_ENERGY_WH), or the override when one is set
StartCharge(c) ==
    IF c.OPTIMIZE_OVERRIDE_CURRENT_SOC_WH # <<>>
    THEN c.OPTIMIZE_OVERRIDE_CURRENT_SOC_WH[1] * Wh
    ELSE c.BATTERY_ENERGY_WH * Wh

\* The slots of one run are consecutive quarters: a timeline this short
\* spans at most two clock hours, the first k slots in the first.
HourSplits(n) == {1, 2, n} \cap (1..n)

\* setup_timeline's slot record, with grid_wh and batt_wh at 0.0
Slot(i, hour, price, load) ==
    [index |-> i, hour |-> hour, price |-> price,
     base_net_load_wh |-> load * Wh, grid_wh |-> 0, batt_wh |-> 0]

Timelines ==
    {<<>>} \cup
    UNION {{[i \in 1..n |-> Slot(i, IF i <= k THEN 6 ELSE 7, ps[i], ls[i])] :
              ps \in [1..n -> Prices], ls \in [1..n -> Loads],
              k \in HourSplits(n)} : n \in 1..NSlots}

----------------------------------------------------------------------------
(* run_optimizer *)

Init ==
    /\ cfg \in Configs
    /\ timeline \in Timelines
    /\ current_battery_wh = StartCharge(cfg)
    /\ pc = "start"
    /\ optimal_limit = 0
    /\ warning_flag = FALSE
    /\ safety_iter = 0
    /\ swap_iter = 0
    /\ swap_ceiling_wh = 0
    /\ last_swap = <<>>
    /\ result = <<>>
    /\ before = timeline
    /\ return_history = FALSE
    /\ history = <<>>
    /\ retval = ""

\* the same call with return_history either way, as homevolt_animator and
\* homevolt_visualizer make it
HistoryInit ==
    /\ cfg \in HistoryConfigs
    /\ timeline \in Timelines
    /\ current_battery_wh = StartCharge(cfg)
    /\ pc = "start"
    /\ optimal_limit = 0
    /\ warning_flag = FALSE
    /\ safety_iter = 0
    /\ swap_iter = 0
    /\ swap_ceiling_wh = 0
    /\ last_swap = <<>>
    /\ result = <<>>
    /\ before = timeline
    /\ return_history \in BOOLEAN
    /\ history = <<>>
    /\ retval = ""

\* A snapshot that shares the slot records with the timeline instead of
\* copying them: every snapshot taken earlier then shows the slots as they
\* are now (the code takes a deep copy).
SaveSnapshotSharingSlots(hist, name, tl, soc) ==
    IF return_history
    THEN LET prof == calculate_battery_profile_from_list(soc, GridOf(tl), tl)
             snap_tl == [i \in Slots(tl) |-> [tl[i] EXCEPT !.batt_wh = prof[i]]]
         IN  Append([k \in DOMAIN hist |-> [hist[k] EXCEPT !.timeline = snap_tl]],
                    [title |-> name,
                     timeline |-> snap_tl,
                     battery_wh |-> soc,
                     peak_limit |-> PREVIOUS_PEAK_WH])
    ELSE hist

\* save_snapshot(name): with return_history, a copy of the timeline with
\* batt_wh set from the simulator's replay is appended to the history
save_snapshot(hist, name, tl, soc) ==
    IF return_history
    THEN LET prof == calculate_battery_profile_from_list(soc, GridOf(tl), tl)
             snap_tl == [i \in Slots(tl) |-> [tl[i] EXCEPT !.batt_wh = prof[i]]]
         IN  Append(hist, [title |-> name,
                           timeline |-> snap_tl,
                           battery_wh |-> soc,
                           peak_limit |-> PREVIOUS_PEAK_WH])
    ELSE hist

\* x["grid_wh"] = x["base_net_load_wh"] - BIAS_WH_PER_QUARTER, for "Fas 0"
GridAtNetLoad(tl) ==
    [i \in Slots(tl) |->
        [tl[i] EXCEPT !.grid_wh = tl[i].base_net_load_wh - BIAS_WH_PER_QUARTER]]

\* The early return giving None whatever return_history is (the code gives
\* [] with return_history).
ReturnEmptyAlwaysNone ==
    /\ pc = "start"
    /\ timeline = <<>>
    /\ pc' = "returned"
    /\ retval' = "None"
    /\ UNCHANGED <<cfg, return_history, history, timeline, current_battery_wh,
                   optimal_limit, warning_flag, safety_iter, swap_iter,
                   swap_ceiling_wh, last_swap, result, before>>

\* if not timeline: return [] if return_history else None
ReturnEmpty ==
    /\ pc = "start"
    /\ timeline = <<>>
    /\ pc' = "returned"
    /\ retval' = IF return_history THEN "[]" ELSE "None"
    /\ UNCHANGED history
    /\ UNCHANGED <<cfg, return_history, timeline, current_battery_wh, optimal_limit,
                   warning_flag, safety_iter, swap_iter, swap_ceiling_wh,
                   last_swap, result, before>>

Phase1 ==
    /\ pc = "start"
    /\ timeline # <<>>
    /\ \E r \in {phase_1_peak_shaving(timeline, current_battery_wh)} :
           /\ timeline' = r.tl
           /\ optimal_limit' = r.optimal
           /\ warning_flag' = r.warning_flag
    /\ before' = timeline
    /\ safety_iter' = 0
    /\ pc' = "phase2"
    /\ history' = save_snapshot(
                      save_snapshot(history, "Fas 0", GridAtNetLoad(timeline),
                                    current_battery_wh),
                      "Fas 1", timeline', current_battery_wh)
    /\ UNCHANGED retval
    /\ UNCHANGED <<cfg, return_history, current_battery_wh, swap_iter, swap_ceiling_wh,
                   last_swap, result>>

\* The while loop without its cap: it goes on as long as a violation is found
\* (the code stops after SafetyCap passes).
SafetyPassUncapped ==
    /\ pc = "phase2"
    /\ safety_iter' = safety_iter + 1
    /\ before' = IF safety_iter = 0 THEN timeline ELSE before
    /\ \E V \in {SafetyViolations(timeline, current_battery_wh)} :
           IF V = {}
           THEN /\ pc' = "fill"
                /\ UNCHANGED timeline
           ELSE \E r \in {distribute_smart_safety_fill(
                              timeline,
                              SafetyNeeded(timeline, current_battery_wh,
                                           FirstOf(V)),
                              FirstOf(V), current_battery_wh)} :
                /\ timeline' = r.tl
                /\ pc' = IF r.raised THEN "raised" ELSE "phase2"
    /\ history' = IF pc' = "fill"
                  THEN save_snapshot(history, "Fas 2", timeline',
                                     current_battery_wh)
                  ELSE history
    /\ UNCHANGED <<cfg, return_history, retval, current_battery_wh,
                   optimal_limit, warning_flag,
                   swap_iter, swap_ceiling_wh, last_swap, result>>

\* one pass of phase_2_safety_checks' while loop
SafetyPass ==
    /\ pc = "phase2"
    /\ safety_iter < SafetyCap
    /\ safety_iter' = safety_iter + 1
    /\ before' = IF safety_iter = 0 THEN timeline ELSE before
    /\ \E V \in {SafetyViolations(timeline, current_battery_wh)} :
           IF V = {}
           THEN /\ pc' = "fill"
                /\ UNCHANGED timeline
           ELSE \E r \in {distribute_smart_safety_fill(
                              timeline,
                              SafetyNeeded(timeline, current_battery_wh,
                                           FirstOf(V)),
                              FirstOf(V), current_battery_wh)} :
                /\ timeline' = r.tl
                /\ pc' = IF r.raised THEN "raised"
                         ELSE IF safety_iter' < SafetyCap THEN "phase2"
                         ELSE "fill"
    /\ history' = IF pc' = "fill"
                  THEN save_snapshot(history, "Fas 2", timeline',
                                     current_battery_wh)
                  ELSE history
    /\ UNCHANGED <<cfg, return_history, retval, current_battery_wh,
                   optimal_limit, warning_flag,
                   swap_iter, swap_ceiling_wh, last_swap, result>>

\* phase_smart_fill_cheap_hours(timeline, current_battery_wh, PREVIOUS_PEAK_WH)
SmartFill ==
    /\ pc = "fill"
    /\ \E r \in {phase_smart_fill_cheap_hours(timeline, current_battery_wh,
                                              PREVIOUS_PEAK_WH)} :
           /\ timeline' = r.tl
           /\ pc' = IF r.raised THEN "raised" ELSE "intra"
    /\ before' = timeline
    /\ history' = IF pc' = "intra"
                  THEN save_snapshot(history, "Fas 2.9", timeline',
                                     current_battery_wh)
                  ELSE history
    /\ UNCHANGED <<cfg, return_history, retval, current_battery_wh,
                   optimal_limit, warning_flag,
                   safety_iter, swap_iter, swap_ceiling_wh, last_swap, result>>

IntraHour ==
    /\ pc = "intra"
    /\ timeline' = phase_optimize_within_hours(timeline, current_battery_wh)
    /\ pc' = IF ENABLE_ARBITRAGE THEN "swap_begin" ELSE "report"
    /\ before' = timeline
    /\ history' = save_snapshot(history, "Fas 2.5", timeline',
                                current_battery_wh)
    /\ UNCHANGED <<cfg, return_history, retval, current_battery_wh,
                   optimal_limit, warning_flag,
                   safety_iter, swap_iter, swap_ceiling_wh, last_swap, result>>

\* phase_3_price_optimization up to its while loop
SwapBegin ==
    /\ pc = "swap_begin"
    /\ swap_ceiling_wh' =
           EffectiveSwapCeiling(timeline,
                                SwapCeilingArg(optimal_limit, warning_flag))
    /\ swap_iter' = 0
    /\ last_swap' = <<>>
    /\ before' = timeline
    /\ pc' = "swap"
    /\ UNCHANGED <<cfg, return_history, history, retval, timeline,
                   current_battery_wh, optimal_limit,
                   warning_flag, safety_iter, result>>

\* one iteration of phase_3_price_optimization's while loop
SwapStep ==
    /\ pc = "swap"
    /\ swap_iter < SwapCap
    /\ swap_iter' = swap_iter + 1
    /\ \E best_swap \in {BestSwap(timeline, current_battery_wh,
                                    swap_ceiling_wh)} :
           IF best_swap = <<>>
           THEN /\ pc' = "arb"
                /\ last_swap' = <<>>
                /\ UNCHANGED timeline
           ELSE /\ timeline' = ApplySwap(timeline, best_swap[1], best_swap[2])
                /\ last_swap' = best_swap
                /\ pc' = IF swap_iter' < SwapCap THEN "swap" ELSE "arb"
    /\ UNCHANGED <<cfg, return_history, history, retval, current_battery_wh,
                   optimal_limit, warning_flag,
                   safety_iter, swap_ceiling_wh, result, before>>

\* phase_4_active_arbitrage: it raises on its first improving pair, and
\* otherwise leaves the loop without a move
ActiveArbitrage ==
    /\ pc = "arb"
    /\ pc' = IF ArbRaises(timeline, current_battery_wh) THEN "raised"
             ELSE "report"
    /\ before' = timeline
    /\ last_swap' = <<>>
    /\ history' = IF pc' = "report"
                  THEN save_snapshot(history, "Fas 3 & 4", timeline,
                                     current_battery_wh)
                  ELSE history
    /\ UNCHANGED <<cfg, return_history, retval, timeline, current_battery_wh,
                   optimal_limit,
                   warning_flag, safety_iter, swap_iter, swap_ceiling_wh,
                   result>>

\* generate_reports: item["batt_wh"] = final_soc_profile[i] (the report it
\* prints and writes is not modelled)
generate_reports(tl, soc) ==
    LET final_soc_profile ==
            calculate_battery_profile_from_list(soc, GridOf(tl), tl)
    IN  [i \in Slots(tl) |-> [tl[i] EXCEPT !.batt_wh = final_soc_profile[i]]]

\* the end of run_optimizer: the reports and the timeline, or the last
\* snapshot and the history
Report ==
    /\ pc = "report"
    /\ pc' = "returned"
    /\ IF return_history
       THEN /\ history' = save_snapshot(history, "Slutresultat", timeline,
                                        current_battery_wh)
            /\ retval' = "history"
            /\ UNCHANGED timeline
       ELSE /\ timeline' = generate_reports(timeline, current_battery_wh)
            /\ retval' = "timeline"
            /\ UNCHANGED history
    /\ UNCHANGED <<cfg, return_history, current_battery_wh, optimal_limit,
                   warning_flag, safety_iter, swap_iter, swap_ceiling_wh,
                   last_swap, result, before>>

Next ==
    \/ ReturnEmpty
    \/ Phase1
    \/ SafetyPass
    \/ SmartFill
    \/ IntraHour
    \/ SwapBegin
    \/ SwapStep
    \/ ActiveArbitrage
    \/ Report

Spec == Init /\ [][Next]_vars

SpecHistory == HistoryInit /\ [][Next]_vars

----------------------------------------------------------------------------
(* Where run_optimizer stands. *)

AfterPeakShaving == pc = "phase2" /\ safety_iter = 0
AfterSafety == pc = "fill"
AfterSmartFill == pc = "intra"
AfterIntraHour == pc = "swap_begin" \/ (pc = "report" /\ ~ENABLE_ARBITRAGE)
AfterSwapPass == pc = "arb"

\* the simulator's replay of the current grid_wh values
Replay ==
    calculate_battery_profile_from_list(current_battery_wh, GridOf(timeline),
                                        timeline)

Discharges == [i \in Slots(timeline) |-> Discharge(timeline[i])]

----------------------------------------------------------------------------
(* The functions applied on their own to any timeline: the slots hold any *)
(* grid_wh, not only what the earlier phases leave.                       *)

UnitLoads == {-80, 90}
UnitPrices == {1, 3}
UnitGrids == {-100, 100}

UnitTimelines ==
    {<<>>} \cup
    UNION {{[i \in 1..n |->
               [Slot(i, IF i <= k THEN 6 ELSE 7, ps[i], ls[i])
                  EXCEPT !.grid_wh = gs[i] * Wh]] :
              ps \in [1..n -> UnitPrices], ls \in [1..n -> UnitLoads],
              gs \in [1..n -> UnitGrids], k \in HourSplits(n)} :
           n \in 1..NSlots}

UnitInit ==
    /\ cfg \in Configs
    /\ timeline \in UnitTimelines
    /\ current_battery_wh = StartCharge(cfg)
    /\ pc = "input"
    /\ optimal_limit = 0
    /\ warning_flag = FALSE
    /\ safety_iter = 0
    /\ swap_iter = 0
    /\ swap_ceiling_wh = 0
    /\ last_swap = <<>>
    /\ result = <<>>
    /\ before = timeline
    /\ return_history = FALSE
    /\ history = <<>>
    /\ retval = ""

\* prof = calculate_battery_profile_from_list(current_battery_wh, grid_cmds,
\* timeline), as save_snapshot and every phase call it
CallProfile ==
    /\ pc = "input"
    /\ result' = calculate_battery_profile_from_list(
                     current_battery_wh, GridOf(timeline), timeline)
    /\ before' = timeline
    /\ pc' = "profiled"
    /\ UNCHANGED <<cfg, return_history, history, retval, timeline, current_battery_wh, optimal_limit,
                   warning_flag, safety_iter, swap_iter, swap_ceiling_wh,
                   last_swap>>

\* phase_smart_fill_cheap_hours on the input, and again on its own output;
\* result keeps the grid_wh values of the input
CallSmartFill ==
    /\ pc \in {"input", "filled"}
    /\ \E r \in {phase_smart_fill_cheap_hours(timeline, current_battery_wh,
                                              PREVIOUS_PEAK_WH)} :
           /\ timeline' = r.tl
           /\ pc' = IF r.raised THEN "fill_raised"
                    ELSE IF pc = "input" THEN "filled" ELSE "refilled"
    /\ before' = timeline
    /\ result' = IF pc = "input" THEN GridOf(timeline) ELSE result
    /\ UNCHANGED <<cfg, return_history, history, retval, current_battery_wh,
                   optimal_limit, warning_flag, safety_iter, swap_iter,
                   swap_ceiling_wh, last_swap>>

\* the deficits distribute_smart_safety_fill is called with
UnitNeeded == {6, 70, 300}

\* distribute_smart_safety_fill(timeline, needed, end_index,
\* current_battery_wh) on the input; result keeps the arguments
CallSafetyFill ==
    /\ pc = "input"
    /\ timeline # <<>>
    /\ \E needed \in UnitNeeded, end_index \in {1, Len(timeline)} :
           /\ \E r \in {distribute_smart_safety_fill(
                             timeline, needed * Wh, end_index,
                             current_battery_wh)} :
                  /\ timeline' = r.tl
                  /\ pc' = IF r.raised THEN "safety_fill_raised"
                           ELSE "safety_filled"
           /\ result' = <<needed * Wh, end_index>>
    /\ before' = timeline
    /\ UNCHANGED <<cfg, return_history, history, retval, current_battery_wh,
                   optimal_limit, warning_flag, safety_iter, swap_iter,
                   swap_ceiling_wh, last_swap>>

\* phase_optimize_within_hours(timeline, current_battery_wh) on the input
CallIntraHour ==
    /\ pc = "input"
    /\ timeline' = phase_optimize_within_hours(timeline, current_battery_wh)
    /\ before' = timeline
    /\ pc' = "reallocated"
    /\ UNCHANGED <<cfg, return_history, history, retval, current_battery_wh,
                   optimal_limit, warning_flag, safety_iter, swap_iter,
                   swap_ceiling_wh, last_swap, result>>

UnitNext ==
    \/ CallProfile
    \/ CallSmartFill
    \/ CallSafetyFill
    \/ CallIntraHour

SpecUnit == UnitInit /\ [][UnitNext]_vars

----------------------------------------------------------------------------
(* C1: calculate_battery_profile_from_list returns one entry per slot,    *)
(* entry i being min(capacity, previous + (grid_delta[i] + bias) -         *)
(* base_net_load[i]) with previous the starting charge for the first slot *)
(* and entry i-1 after it; nothing clamps from below, and the timeline    *)
(* passed in is as it was.                                                *)
C1_ProfileRecurrence ==
    pc = "profiled" =>
        /\ Len(result) = Len(timeline)
        /\ \A i \in Slots(timeline) :
              result[i] =
                  Min2(cfg.BATTERY_ENERGY_WH * Wh,
                       (IF i = 1 THEN current_battery_wh ELSE result[i - 1])
                       + (timeline[i].grid_wh + cfg.BIAS_WH_PER_QUARTER * Wh)
                       - timeline[i].base_net_load_wh)
        /\ timeline = before

\* a profile that is clamped at capacity in one slot and negative in another
C1_Witness ==
    /\ pc = "profiled"
    /\ \E i \in Slots(timeline) : result[i] = cfg.BATTERY_ENERGY_WH * Wh
    /\ \E i \in Slots(timeline) : result[i] < 0

----------------------------------------------------------------------------
(* C2: from a starting charge between the minimum reserve and the         *)
(* capacity, after peak shaving, after the safety correction, after the   *)
(* cheap-hour fill and after the intra-hour reallocation, the simulator's *)
(* replay of the current grid_wh values is at or above the minimum        *)
(* reserve in every slot.                                                 *)
C2_ReserveKeptAfterEachPhase ==
    (/\ AfterPeakShaving \/ AfterSafety \/ AfterSmartFill \/ AfterIntraHour
     /\ MIN_BATTERY_BUFFER_WH <= current_battery_wh
     /\ current_battery_wh <= BATTERY_ENERGY_WH)
        => \A i \in Slots(timeline) : Replay[i] >= MIN_BATTERY_BUFFER_WH

\* the same up to the cheap-hour fill: the three phases before the
\* intra-hour reallocation keep the reserve
C2_ReserveKeptBeforeIntraHour ==
    (/\ AfterPeakShaving \/ AfterSafety \/ AfterSmartFill
     /\ MIN_BATTERY_BUFFER_WH <= current_battery_wh
     /\ current_battery_wh <= BATTERY_ENERGY_WH)
        => \A i \in Slots(timeline) : Replay[i] >= MIN_BATTERY_BUFFER_WH

----------------------------------------------------------------------------
(* C3: after peak shaving, after the safety correction, after the         *)
(* cheap-hour fill, after the intra-hour reallocation and after the swap  *)
(* pass, every slot's discharge base_net_load - (grid_wh + bias) is at    *)
(* most MAX_BATTERY_OUTPUT_PER_QUARTER_WH.                                *)
C3_DischargeWithinRate ==
    (\/ AfterPeakShaving
     \/ AfterSafety
     \/ AfterSmartFill
     \/ AfterIntraHour
     \/ AfterSwapPass)
        => \A i \in Slots(timeline) :
               Discharges[i] <= MAX_BATTERY_OUTPUT_PER_QUARTER_WH

\* the same for the phases before the swap pass
C3_DischargeWithinRateBeforeSwaps ==
    (\/ AfterPeakShaving
     \/ AfterSafety
     \/ AfterSmartFill
     \/ AfterIntraHour)
        => \A i \in Slots(timeline) :
               Discharges[i] <= MAX_BATTERY_OUTPUT_PER_QUARTER_WH

----------------------------------------------------------------------------
(* C4: right after phase_1_peak_shaving, from a starting charge not above *)
(* the capacity, every slot's discharge base_net_load - (grid_wh + bias)  *)
(* lies between 0 and MAX_BATTERY_OUTPUT_PER_QUARTER_WH, and the          *)
(* discharges of all slots sum to at most capacity minus minimum reserve. *)
C4_PeakShavingDischargeBounds ==
    (AfterPeakShaving /\ current_battery_wh <= BATTERY_ENERGY_WH) =>
        /\ \A i \in Slots(timeline) :
               /\ 0 <= Discharges[i]
               /\ Discharges[i] <= MAX_BATTERY_OUTPUT_PER_QUARTER_WH
        /\ SeqSum(Discharges) <= BATTERY_ENERGY_WH - MIN_BATTERY_BUFFER_WH

\* from a full battery, peak shaving spreads over several slots all but a
\* fraction of a Wh of the energy above the reserve
C4_Witness ==
    /\ AfterPeakShaving
    /\ current_battery_wh = BATTERY_ENERGY_WH
    /\ SeqSum(Discharges) > BATTERY_ENERGY_WH - MIN_BATTERY_BUFFER_WH - OneWh
    /\ Cardinality({i \in Slots(timeline) : Discharges[i] > 0}) >= 2

----------------------------------------------------------------------------
(* C5: calculate_min_peak_limit returns, up to the resolution of its 20   *)
(* halvings of [0, 10000], the smallest ceiling L for which (a) every     *)
(* slot's battery-supplied portion max(0, load - max(0, L - bias)) is at  *)
(* most the per-slot discharge limit and (b) these portions sum to at     *)
(* most the available energy: the returned ceiling satisfies (a) and (b), *)
(* and no ceiling lower by more than the resolution does, a ceiling under *)
(* the bias included.                                                     *)

\* the width of the search interval after the last halving
Resolution == (SearchHigh - SearchLow) \div 2^Halvings

\* the battery-supplied portion of a slot when grid import is held at L
Portion(item, L) ==
    Max2(0, item.base_net_load_wh - Max2(0, L - BIAS_WH_PER_QUARTER))

\* conditions (a) and (b) for ceiling L
CeilingFeasible(tl, available, L) ==
    /\ \A i \in Slots(tl) :
           Portion(tl[i], L) <= MAX_BATTERY_OUTPUT_PER_QUARTER_WH
    /\ SeqSum([i \in Slots(tl) |-> Portion(tl[i], L)]) <= available

\* (a) and (b) only get easier as L grows, so no ceiling in [0, bound]
\* satisfies them iff bound does not
C5_SmallestCeiling ==
    (AfterPeakShaving /\ TRY_KEEP_HOURS_BELOW_WH = <<>>) =>
        LET available == Max2(0, current_battery_wh - MIN_BATTERY_BUFFER_WH)
            below == optimal_limit - Resolution - 1
        IN  /\ CeilingFeasible(before, available, optimal_limit)
            /\ below >= SearchLow => ~CeilingFeasible(before, available, below)

\* the same with the ceilings under the bias left out
C5_SmallestCeilingAboveBias ==
    (AfterPeakShaving /\ TRY_KEEP_HOURS_BELOW_WH = <<>>) =>
        LET available == Max2(0, current_battery_wh - MIN_BATTERY_BUFFER_WH)
            below == optimal_limit - Resolution - 1
        IN  /\ CeilingFeasible(before, available, optimal_limit)
            /\ below >= BIAS_WH_PER_QUARTER
                  => ~CeilingFeasible(before, available, below)

----------------------------------------------------------------------------
(* C6: right after phase_1_peak_shaving with ceiling L, a slot whose      *)
(* base_net_load exceeds L and whose discharge was capped neither by the  *)
(* per-slot rate limit nor by the minimum reserve imports exactly L:      *)
(* grid_wh + bias = L, whatever the bias.                                 *)

\* a slot the loop did not cap: it discharges less than the rate limit and
\* leaves the battery above the reserve
Uncapped(item) ==
    /\ Discharge(item) < MAX_BATTERY_OUTPUT_PER_QUARTER_WH
    /\ item.batt_wh > MIN_BATTERY_BUFFER_WH

C6_ImportHeldAtCeiling ==
    AfterPeakShaving =>
        \A i \in Slots(timeline) :
            (timeline[i].base_net_load_wh > optimal_limit
             /\ Uncapped(timeline[i]))
                => timeline[i].grid_wh + BIAS_WH_PER_QUARTER = optimal_limit

\* the same for a bias of zero only
C6_ImportHeldAtCeilingZeroBias ==
    (AfterPeakShaving /\ BIAS_WH_PER_QUARTER = 0) =>
        \A i \in Slots(timeline) :
            (timeline[i].base_net_load_wh > optimal_limit
             /\ Uncapped(timeline[i]))
                => timeline[i].grid_wh + BIAS_WH_PER_QUARTER = optimal_limit

----------------------------------------------------------------------------
C7_SmartFillFixedPointNoExport ==
    (/\ pc = "refilled"
     /\ \A i \in Slots(before) : result[i] + BIAS_WH_PER_QUARTER >= 0)
        => GridOf(timeline) = GridOf(before)

----------------------------------------------------------------------------
(* C8: every swap phase_3_price_optimization accepts moves 50 Wh between  *)
(* an earlier and a later slot whose price spread (later price minus      *)
(* earlier price) minus the cycling cost is strictly greater than zero.   *)

\* the step is an accepted swap of the pair (s, d): 50 Wh of import moved
\* from slot d to slot s, s the earlier slot, nothing else changed
SwapMoves(s, d) ==
    /\ s < d
    /\ timeline'[s].grid_wh = timeline[s].grid_wh + FiftyWh
    /\ timeline'[d].grid_wh = timeline[d].grid_wh - FiftyWh
    /\ \A i \in Slots(timeline) :
           /\ i \notin {s, d} => timeline'[i] = timeline[i]
           /\ timeline'[i].price = timeline[i].price
           /\ timeline'[i].base_net_load_wh = timeline[i].base_net_load_wh
    /\ Len(timeline') = Len(timeline)

Spread(s, d) == timeline[d].price - timeline[s].price

C8_SwapSpreadAboveCycleCost ==
    [][(pc = "swap" /\ last_swap' # <<>>) =>
          /\ SwapMoves(last_swap'[1], last_swap'[2])
          /\ Spread(last_swap'[1], last_swap'[2]) - BATTERY_CYCLE_COST_ORE > 0
      ]_vars

(* C8 as the code has it: the spread minus the cycling cost is at least   *)
(* zero, and the spread itself is strictly greater than zero.             *)
C8_SwapSpreadCoversCycleCost ==
    [][(pc = "swap" /\ last_swap' # <<>>) =>
          /\ SwapMoves(last_swap'[1], last_swap'[2])
          /\ Spread(last_swap'[1], last_swap'[2]) - BATTERY_CYCLE_COST_ORE >= 0
          /\ Spread(last_swap'[1], last_swap'[2]) > 0
      ]_vars

\* a swap has been accepted whose spread equals the cycling cost
C8_Witness ==
    /\ pc \in {"swap", "arb"}
    /\ last_swap # <<>>
    /\ Spread(last_swap[1], last_swap[2]) = BATTERY_CYCLE_COST_ORE

----------------------------------------------------------------------------
(* C9: the total import cost, the sum over the slots of price * (grid_wh  *)
(* + bias), never increases across an iteration of the swap pass: each    *)
(* accepted swap lowers it by exactly 50 Wh times the pair's price        *)
(* spread, an iteration that accepts none leaves it as it is, and after   *)
(* phase_3_price_optimization it is at most what it was before the pass.  *)
ImportCost(tl) ==
    SeqSum([i \in Slots(tl) |->
              tl[i].price * (tl[i].grid_wh + BIAS_WH_PER_QUARTER)])

C9_SwapPassNeverRaisesCost ==
    [][pc = "swap" =>
          /\ ImportCost(timeline') <= ImportCost(timeline)
          /\ IF last_swap' # <<>>
             THEN ImportCost(timeline') =
                      ImportCost(timeline)
                      - FiftyWh * Spread(last_swap'[1], last_swap'[2])
             ELSE ImportCost(timeline') = ImportCost(timeline)
          /\ pc' = "arb" => ImportCost(timeline') <= ImportCost(before)
      ]_vars

\* the pass has ended after at least two accepted swaps, at a lower cost
C9_Witness ==
    /\ AfterSwapPass
    /\ swap_iter >= 3
    /\ ImportCost(timeline) < ImportCost(before)

----------------------------------------------------------------------------
(* C10: in phase_4_active_arbitrage, whenever some pair (earlier slot b,  *)
(* later slot s) meets the profit threshold (price_s - price_b - fees -   *)
(* cycling cost >= MIN_PRICE_DIFF_ORE_FOR_SELLING) and the peak-budget,   *)
(* rate, throttle and path-capacity checks, the pass completes normally   *)
(* and has moved 50 Wh per accepted iteration, grid_wh raised in the      *)
(* buying slot and lowered in the selling slot of a feasible pair of      *)
(* maximal profit.                                                        *)

\* the pair passes the profit threshold and every other check of the scan
ArbCandidate(tl, soc, b, s) ==
    /\ ArbFeasible(tl, soc, get_hourly_usage_map(tl), b, s)
    /\ ArbProfit(tl, b, s) >= MIN_PRICE_DIFF_ORE_FOR_SELLING

C10_ArbitrageMovesBestPair ==
    [][(/\ pc = "arb"
        /\ \E b \in Slots(timeline), s \in Slots(timeline) :
               ArbCandidate(timeline, current_battery_wh, b, s))
          => /\ pc' = "report"
             /\ \E b \in Slots(timeline), s \in Slots(timeline) :
                    /\ ArbCandidate(timeline, current_battery_wh, b, s)
                    /\ \A b2 \in Slots(timeline), s2 \in Slots(timeline) :
                           ArbCandidate(timeline, current_battery_wh, b2, s2)
                               => ArbProfit(timeline, b2, s2)
                                      <= ArbProfit(timeline, b, s)
                    /\ timeline'[b].grid_wh # timeline[b].grid_wh
                    /\ timeline'[s].grid_wh # timeline[s].grid_wh
      ]_vars

\* what the pass does instead: it ends normally only when no pair meets
\* the threshold and the checks, and then it has moved nothing
C10_ArbitrageEndsOnlyWithoutPair ==
    [][pc = "arb" =>
          /\ timeline' = timeline
          /\ pc' = "report" <=>
                 ~\E b \in Slots(timeline), s \in Slots(timeline) :
                      /\ ArbCandidate(timeline, current_battery_wh, b, s)
                      /\ ArbProfit(timeline, b, s) > 0
      ]_vars

----------------------------------------------------------------------------
(* C11: every phase terminates on every finite timeline: the safety       *)
(* corrector makes at most 10 passes, the swap pass accepts at most 500   *)
(* swaps and the active-arbitrage pass makes at most 500 moves, and each  *)
(* of the two arbitrage passes stops at the first iteration in which no   *)
(* feasible improving pair exists.                                        *)

\* run_optimizer has returned, normally or by an exception
Terminated == pc \in {"returned", "raised"}

\* the swap pass and the active-arbitrage pass leave their loop, without a
\* move, in the iteration that finds no pair
StopsWithoutPair ==
    /\ (pc = "swap"
         /\ BestSwap(timeline, current_battery_wh, swap_ceiling_wh) = <<>>)
            => (pc' = "arb" /\ timeline' = timeline)
    /\ (pc = "arb" /\ ~ArbRaises(timeline, current_battery_wh))
            => (pc' = "report" /\ timeline' = timeline)
    /\ pc = "arb" => timeline' = timeline

\* how far run_optimizer is from its return: the phases still to start
PhasesLeft ==
    CASE pc = "start" -> 8
      [] pc = "phase2" -> 7
      [] pc = "fill" -> 6
      [] pc = "intra" -> 5
      [] pc = "swap_begin" -> 4
      [] pc = "swap" -> 3
      [] pc = "arb" -> 2
      [] pc = "report" -> 1
      [] OTHER -> 0

\* a measure of the work left: the phases to come, then the loop passes the
\* caps still allow
WorkLeft ==
    PhasesLeft * (SafetyCap + SwapCap + 1)
    + (SafetyCap - safety_iter) + (SwapCap - swap_iter)

\* a run that has not returned can take its next step
CanStep ==
    /\ pc \in {"start", "phase2", "fill", "intra", "swap_begin", "swap", "arb",
              "report"}
    /\ pc = "phase2" => safety_iter < SafetyCap
    /\ pc = "swap" => swap_iter < SwapCap

----------------------------------------------------------------------------
(* C12: when setup_timeline gives no timeline or one with zero slots,     *)
(* run_optimizer runs no phase and captures no snapshot, and returns the  *)
(* empty history (with return_history) or None (without it); it does not  *)
(* raise. None and [] are both false in `if not timeline`: the empty      *)
(* sequence stands for either.                                            *)
C12_EmptyTimelineReturnsAtOnce ==
    /\ [](timeline = <<>> =>
              /\ pc \in {"start", "returned"}
              /\ history = <<>>
              /\ optimal_limit = 0 /\ ~warning_flag
              /\ safety_iter = 0 /\ swap_iter = 0
              /\ pc = "returned" =>
                     retval = IF return_history THEN "[]" ELSE "None")
    /\ [][(pc = "start" /\ timeline = <<>>) =>
              (pc' = "returned" /\ timeline' = <<>>)]_vars

\* the call with return_history has returned the empty history
C12_Witness ==
    /\ pc = "returned"
    /\ timeline = <<>>
    /\ return_history
    /\ retval = "[]"
    /\ history = <<>>

----------------------------------------------------------------------------
(* C13: no phase (peak shaving, safety correction, cheap-hour fill,       *)
(* intra-hour reallocation, swap pass, active arbitrage) changes the      *)
(* number of slots, their order, or a slot's time, hour, price or         *)
(* base_net_load; only grid_wh and the derived batt_wh change. A slot's   *)
(* time label is its index here.                                          *)

\* the timeline with the two fields the phases may write blanked
Frame(tl) == [i \in Slots(tl) |-> [tl[i] EXCEPT !.grid_wh = 0, !.batt_wh = 0]]

C13_PhasesKeepTheFrame ==
    [][/\ Len(timeline') = Len(timeline)
       /\ Frame(timeline') = Frame(timeline)
       /\ \A i \in Slots(timeline) : timeline'[i].index = i]_vars

\* a run in which the safety corrector, the fill and the swap pass have all
\* written grid_wh
C13_Witness ==
    /\ pc = "arb"
    /\ safety_iter >= 2
    /\ swap_iter >= 2
    /\ GridOf(timeline) # GridOf(before)
    /\ Frame(timeline) = Frame(before)

----------------------------------------------------------------------------
(* C14: with return_history the history only grows by appending: once a   *)
(* snapshot is captured, no later phase and no later snapshot changes the *)
(* slot values it holds; and each snapshot's batt_wh values are the       *)
(* simulator's replay of that snapshot's own grid_wh values from the      *)
(* starting charge.                                                       *)

\* the snapshot's battery figures are the replay of its own commands
SnapshotReplayed(snap) ==
    /\ snap.battery_wh = current_battery_wh
    /\ Len(snap.timeline) = Len(timeline)
    /\ \A i \in Slots(snap.timeline) :
           snap.timeline[i].batt_wh =
               calculate_battery_profile_from_list(
                   current_battery_wh, GridOf(snap.timeline),
                   snap.timeline)[i]

C14_HistoryAppendOnly ==
    /\ [][/\ Len(history') >= Len(history)
           /\ SubSeq(history', 1, Len(history)) = history]_vars
    /\ [](\A k \in DOMAIN history : SnapshotReplayed(history[k]))
    /\ [](~return_history => history = <<>>)

\* the full history of a run with the arbitrage passes: seven snapshots,
\* the first with the battery idle, the later ones with other commands
C14_Witness ==
    /\ pc = "returned"
    /\ retval = "history"
    /\ Len(history) = 7
    /\ GridOf(history[1].timeline) # GridOf(history[2].timeline)
    /\ GridOf(history[3].timeline) # GridOf(history[7].timeline)

----------------------------------------------------------------------------
(* C15: if phase_2_safety_checks ends before its cap of SafetyCap passes, *)
(* then in the simulator's replay no slot has both a starting charge      *)
(* below LOW_SOC_THROTTLE_WH and a discharge above                        *)
(* LOW_SOC_MAX_OUTPUT_PER_QUARTER_WH, right after the safety correction,  *)
(* after the cheap-hour fill and after the intra-hour reallocation.       *)
EndedBeforeCap == safety_iter < SafetyCap

Throttled == SafetyViolations(timeline, current_battery_wh) = {}

C15_ThrottleKeptThroughIntraHour ==
    (EndedBeforeCap /\ (AfterSafety \/ AfterSmartFill \/ AfterIntraHour))
        => Throttled

\* the same up to the cheap-hour fill
C15_ThrottleKeptThroughFill ==
    (EndedBeforeCap /\ (AfterSafety \/ AfterSmartFill)) => Throttled

----------------------------------------------------------------------------
(* C16: after one repair pass of phase_2_safety_checks triggered by the   *)
(* violating slot i (the first slot discharging above the low-charge      *)
(* limit from a starting charge below LOW_SOC_THROTTLE_WH), the starting  *)
(* charge of slot i in the recomputed battery profile is at or above      *)
(* LOW_SOC_THROTTLE_WH.                                                   *)
RepairPass ==
    /\ pc = "phase2"
    /\ SafetyViolations(timeline, current_battery_wh) # {}
    /\ pc' \in {"phase2", "fill"}

C16_RepairLiftsStartingCharge ==
    [][RepairPass =>
          StartSoc(calculate_battery_profile_from_list(
                       current_battery_wh, GridOf(timeline'), timeline'),
                   current_battery_wh,
                   FirstOf(SafetyViolations(timeline, current_battery_wh)))
              >= LOW_SOC_THROTTLE_WH]_vars

----------------------------------------------------------------------------
(* C17: in pass 1 of distribute_smart_safety_fill the total energy added  *)
(* to the slots of any one clock hour is at most that hour's spare peak   *)
(* budget, PREVIOUS_PEAK_WH minus the import already used in the hour, so *)
(* an hour whose import was at or below PREVIOUS_PEAK_WH before pass 1 is *)
(* still at or below it after pass 1, also with several candidate slots   *)
(* in the same hour.                                                      *)
HoursOf(tl) == {tl[i].hour : i \in Slots(tl)}

AddedInHour(old, new, h) ==
    SeqSum([i \in Slots(old) |->
              IF old[i].hour = h THEN new[i].grid_wh - old[i].grid_wh ELSE 0])

SpareBudget(tl, h) ==
    Max2(0, PREVIOUS_PEAK_WH - UsageGet(get_hourly_usage_map(tl), h))

SafetyFillCalled == pc \in {"safety_filled", "safety_fill_raised"}

AfterPass1 ==
    SafetyFillPass1(before, result[1], result[2], current_battery_wh).tl

AddedWithinBudget ==
    \A h \in HoursOf(before) :
        AddedInHour(before, AfterPass1, h) <= SpareBudget(before, h)

HoursStayUnderPeak ==
    \A h \in HoursOf(before) :
        HourlyPositive(before, h) <= PREVIOUS_PEAK_WH
            => HourlyPositive(AfterPass1, h) <= PREVIOUS_PEAK_WH

----------------------------------------------------------------------------
(* C18: for a positive deficit on a non-empty timeline,                   *)
(* distribute_smart_safety_fill never decreases a slot's grid_wh, never   *)
(* changes a slot later than the violating slot's index, and the sum of   *)
(* its increases over all slots equals the deficit exactly.               *)
Increase(i) == timeline[i].grid_wh - before[i].grid_wh

SafetyFillFrame ==
    /\ \A i \in Slots(timeline) : Increase(i) >= 0
    /\ \A i \in Slots(timeline) : i > result[2] => Increase(i) = 0

C18_SafetyFillAddsDeficitOnReturn ==
    /\ pc = "safety_filled" =>
           /\ SafetyFillFrame
           /\ SeqSum([i \in Slots(timeline) |-> Increase(i)]) = result[1]
    /\ pc = "safety_fill_raised" =>
           /\ SafetyFillFrame
           /\ SeqSum([i \in Slots(timeline) |-> Increase(i)]) <= result[1]

----------------------------------------------------------------------------
(* C19: in phase_smart_fill_cheap_hours a tentative increase of a slot's  *)
(* grid_wh that would push the accumulated battery charge above the       *)
(* capacity at any slot is rolled back, the slot's grid_wh and the hour's *)
(* usage figure left as before the attempt, and the phase goes on with    *)
(* the next candidate.  The attempts the phase keeps are therefore those  *)
(* that leave the accumulated charge at or below the capacity: from a     *)
(* timeline whose accumulated charge is at or below the capacity at every *)
(* slot, the phase returns one of which the same is true.                 *)

\* the charge after slot i, accumulated without the simulator's clamp
Accumulated(tl, soc, i) ==
    soc - SeqSum([j \in 1..i |-> Discharge(tl[j])])

WithinCapacity(tl, soc) ==
    /\ soc <= BATTERY_ENERGY_WH
    /\ \A i \in Slots(tl) : Accumulated(tl, soc, i) <= BATTERY_ENERGY_WH

C19_CapacityCheckNeverFails ==
    timeline # <<>> => check_capacity(timeline, current_battery_wh)

----------------------------------------------------------------------------
(* C20: phase_optimize_within_hours leaves every clock hour's aggregate   *)
(* import, the sum of grid_wh + bias over the hour's slots, equal to its  *)
(* value before the phase, whether the hour's reallocation is accepted,   *)
(* rolled back or skipped, also for an hour whose budget exceeds what its *)
(* slots can take (loads plus charging headroom).                         *)
HourImport(tl, h) ==
    SeqSum([i \in Slots(tl) |->
              IF tl[i].hour = h THEN tl[i].grid_wh + BIAS_WH_PER_QUARTER
              ELSE 0])

HourRoom(tl, h) ==
    SeqSum([i \in Slots(tl) |->
              IF tl[i].hour = h
              THEN tl[i].base_net_load_wh + MAX_BATTERY_OUTPUT_PER_QUARTER_WH
              ELSE 0])

\* the same for the hours whose budget is within what their slots can take
C20_HourImportKeptWithinRoom ==
    (AfterIntraHour \/ pc = "reallocated") =>
        \A h \in HoursOf(timeline) :
            HourImport(before, h) <= HourRoom(before, h)
                => HourImport(timeline, h) = HourImport(before, h)

----------------------------------------------------------------------------
(* C21: in phase_optimize_within_hours the running charge estimate        *)
(* current_soc equals, at the start of every hour, the simulator's charge *)
(* at the end of the previous hour for the grid_wh values of that moment  *)
(* (the starting charge for the first hour), whether the hours before     *)
(* were accepted, rolled back or skipped; and a rolled-back hour leaves   *)
(* every slot's grid_wh as it was.                                        *)

\* the simulator's charge at the start of the first slot of the hour
ChargeAtHourStart(tl, soc, hour) ==
    StartSoc(calculate_battery_profile_from_list(soc, GridOf(tl), tl), soc,
             HourIndices(tl, hour)[1])

\* the estimate agrees with the simulator at the start of each of the hours,
\* walked as the phase walks them from the estimate current_soc
RECURSIVE EstimateAgrees(_, _, _, _)
EstimateAgrees(tl, soc, current_soc, hours) ==
    IF hours = <<>> THEN TRUE
    ELSE LET r == OptimizeHour(tl, current_soc, Head(hours))
         IN  /\ current_soc = ChargeAtHourStart(tl, soc, Head(hours))
             /\ r.branch = "rolled_back" => GridOf(r.tl) = GridOf(tl)
             /\ EstimateAgrees(r.tl, soc, r.current_soc, Tail(hours))

IntraHourDone == AfterIntraHour \/ pc = "reallocated"

----------------------------------------------------------------------------
(* C22: the swap pass never raises a slot's import grid_wh + bias above   *)
(* the effective swap ceiling (the larger of the configured swap ceiling  *)
(* and the largest import present when the pass starts), and never turns  *)
(* the earlier slot of an accepted swap from discharging into charging.   *)
SwapAccepted == pc = "swap" /\ last_swap' # <<>>

ImportsWithinSwapCeiling ==
    \A i \in Slots(timeline') :
        timeline'[i].grid_wh + BIAS_WH_PER_QUARTER <= swap_ceiling_wh

EarlierSlotStillDischarges == Discharge(timeline'[last_swap'[1]]) >= 0

C22_SwapKeepsCeilingAndDirection ==
    [][SwapAccepted =>
          (ImportsWithinSwapCeiling /\ EarlierSlotStillDischarges)]_vars

\* each half on its own
C22_SwapKeepsCeiling == [][SwapAccepted => ImportsWithinSwapCeiling]_vars

C22_SwapKeepsDirection == [][SwapAccepted => EarlierSlotStillDischarges]_vars

----------------------------------------------------------------------------
(* C23: an accepted swap of phase_3_price_optimization never makes the    *)
(* simulator clamp at the capacity between the two slots, so the charge   *)
(* after the later slot and after every slot behind it is unchanged by    *)
(* the swap; hence if the charge was at or above MIN_BATTERY_BUFFER_WH    *)
(* after every slot before the swap pass, it still is after the pass.     *)
ProfileOf(tl) ==
    calculate_battery_profile_from_list(current_battery_wh, GridOf(tl), tl)

\* the 50 Wh charged at slot s are all in the battery up to slot d
NoClampBetween(s, d) ==
    \A k \in s..(d - 1) : ProfileOf(timeline')[k] = ProfileOf(timeline)[k] + FiftyWh

ChargeKeptFrom(d) ==
    \A k \in d..Len(timeline) : ProfileOf(timeline')[k] = ProfileOf(timeline)[k]

ReserveKept(tl) ==
    \A i \in Slots(tl) : ProfileOf(tl)[i] >= MIN_BATTERY_BUFFER_WH

C23_SwapLosesNoCharge ==
    /\ [][SwapAccepted =>
             /\ NoClampBetween(last_swap'[1], last_swap'[2])
             /\ ChargeKeptFrom(last_swap'[2])]_vars
    /\ []((AfterSwapPass /\ ReserveKept(before)) => ReserveKept(timeline))

\* the parts on their own
C23_SwapNeverClamps ==
    [][SwapAccepted => NoClampBetween(last_swap'[1], last_swap'[2])]_vars

C23_SwapKeepsLaterCharge ==
    [][SwapAccepted => ChargeKeptFrom(last_swap'[2])]_vars

C23_SwapPassKeepsReserve ==
    (AfterSwapPass /\ ReserveKept(before)) => ReserveKept(timeline)

----------------------------------------------------------------------------
(* C24: the safety fill (pass 1), the cheap-hour fill and the active      *)
(* arbitrage complete without raising when they add import to a slot     *)
(* whose clock hour has no positive import in the hourly usage map (every *)
(* slot of the hour has grid_wh + bias <= 0); the hour's usage is then    *)
(* counted from zero.                                                     *)
UnusedHour(tl, i) == tl[i].hour \notin DOMAIN get_hourly_usage_map(tl)

\* the step has raised the import of a slot in an hour without usage
AddsToUnusedHour ==
    \E i \in Slots(timeline) :
        /\ timeline'[i].grid_wh > timeline[i].grid_wh
        /\ UnusedHour(timeline, i)

\* the arbitrage has a pair to move whose buying slot is in such an hour
ArbBuysInUnusedHour ==
    \E b \in Slots(timeline), s \in Slots(timeline) :
        /\ ArbCandidate(timeline, current_battery_wh, b, s)
        /\ ArbProfit(timeline, b, s) > 0
        /\ UnusedHour(timeline, b)

SafetyFillCompletes ==
    (pc = "phase2" /\ AddsToUnusedHour) => pc' # "raised"

CheapFillCompletes ==
    (pc = "fill" /\ AddsToUnusedHour) => pc' # "raised"

ArbitrageCompletes ==
    (pc = "arb" /\ ArbBuysInUnusedHour) => pc' # "raised"

C24_FillsCompleteOnUnusedHour ==
    [][SafetyFillCompletes /\ CheapFillCompletes /\ ArbitrageCompletes]_vars

\* each of the three on its own
C24_SafetyFillCompletes == [][SafetyFillCompletes]_vars

C24_CheapFillCompletes == [][CheapFillCompletes]_vars

C24_ArbitrageCompletes == [][ArbitrageCompletes]_vars

\* the fills raise only in that case: a fill that raised had added import
\* to a slot of an hour without usage
C24_FillsRaiseOnlyOnUnusedHour ==
    [][(pc \in {"phase2", "fill"} /\ pc' = "raised") => AddsToUnusedHour]_vars

====
